---- MODULE Spec2Model ----
(***************************************************************************)
(* Text segmentation for TTS (app/core/text_processing.py): the chunking   *)
(* strategies, the boundary finder, the streaming profile resolver, the    *)
(* processing-time estimator, the input validator and the audio stitcher.  *)
(*                                                                         *)
(* A text is a sequence of one-character strings.  Offsets are 0-based, as *)
(* in the source; Slice(s, i, j) is s[i:j].  An Optional value is None,    *)
(* the empty sequence, or Some(x), the one-element sequence holding x.     *)
(***************************************************************************)
EXTENDS Integers, Sequences, FiniteSets, TLC

VARIABLES
    cfg,     \* the values of Config, read at start-up
    fn,      \* the function being called
    pc,      \* "ready" before the call, "loop"/"exit" inside it, "done" after it
    args,    \* its arguments
    locals,  \* its local variables
    ret      \* its return value

vars == <<cfg, fn, pc, args, locals, ret>>

---------------------------------------------------------------------------
(* Bounds of the model *)

MaxTextLen == 4        \* the texts given to the chunkers
MaxChunkArg == 3       \* the chunk sizes given to them
MaxSplitTextLen == 5   \* the texts given to the boundary finder
MaxHierTextLen == 3    \* the texts given to _chunk_hierarchical, pass by pass
MaxEntryTextLen == 3   \* the texts given to the entry points with every size
MaxWords == 11         \* the words of a validated text
MaxSegments == 3       \* the audio segments
MaxSegLen == 2         \* the samples of a segment
MaxTextLength == 12    \* the text_length given to the estimator

---------------------------------------------------------------------------
(* Python values and string primitives *)

None == <<>>
Some(x) == <<x>>
Val(o) == o[1]

\* Python truthiness of an Optional[int] and of an Optional[str]
TruthyInt(o) == o # None /\ Val(o) # 0
TruthyStr(o) == o # None /\ Val(o) # ""

Min(a, b) == IF a <= b THEN a ELSE b
Max(a, b) == IF a >= b THEN a ELSE b
SetMin(S) == CHOOSE x \in S : \A y \in S : x <= y
SetMax(S) == CHOOSE x \in S : \A y \in S : x >= y

Whitespace == {" ", "\n", "\t"}
IsSpace(c) == c \in Whitespace

\* s[i:j] and s[i:] for i, j >= 0
Slice(s, i, j) == SubSeq(s, Max(i, 0) + 1, Min(j, Len(s)))
From(s, i) == Slice(s, i, Len(s))

RECURSIVE LStrip(_)
LStrip(s) == IF s # <<>> /\ IsSpace(Head(s)) THEN LStrip(Tail(s)) ELSE s

RECURSIVE RStrip(_)
RStrip(s) ==
    IF s # <<>> /\ IsSpace(s[Len(s)]) THEN RStrip(SubSeq(s, 1, Len(s) - 1)) ELSE s

\* str.strip()
Strip(s) == RStrip(LStrip(s))

StartsAt(s, sub, i) ==
    /\ i >= 0
    /\ i + Len(sub) <= Len(s)
    /\ SubSeq(s, i + 1, i + Len(sub)) = sub

\* str.find(sub, start)
Find(s, sub, start) ==
    LET hits == {i \in start..(Len(s) - Len(sub)) : StartsAt(s, sub, i)}
    IN  IF hits = {} THEN 0 - 1 ELSE SetMin(hits)

\* str.rfind(sub, lo, hi)
RFind(s, sub, lo, hi) ==
    LET hits == {i \in lo..(Min(hi, Len(s)) - Len(sub)) : StartsAt(s, sub, i)}
    IN  IF hits = {} THEN 0 - 1 ELSE SetMax(hits)

\* str.split(): the whitespace-delimited words
RECURSIVE SplitWords(_)
SplitWords(s) ==
    LET t == LStrip(s)
    IN  IF t = <<>> THEN <<>>
        ELSE LET ws == {i \in 1..Len(t) : IsSpace(t[i])}
                 n  == IF ws = {} THEN Len(t) + 1 ELSE SetMin(ws)
             IN  <<SubSeq(t, 1, n - 1)>> \o SplitWords(SubSeq(t, n, Len(t)))

\* str.split(delimiter)
RECURSIVE SplitOn(_, _)
SplitOn(s, d) ==
    LET i == Find(s, d, 0)
    IN  IF i = 0 - 1 THEN <<s>>
        ELSE <<Slice(s, 0, i)>> \o SplitOn(From(s, i + Len(d)), d)

\* sep.join(parts)
RECURSIVE Join(_, _)
Join(parts, sep) ==
    IF parts = <<>> THEN <<>>
    ELSE IF Len(parts) = 1 THEN parts[1]
    ELSE parts[1] \o sep \o Join(Tail(parts), sep)

\* the concatenation of a list of lists
RECURSIVE Flatten(_)
Flatten(ss) == IF ss = <<>> THEN <<>> ELSE Head(ss) \o Flatten(Tail(ss))

\* [x for x in xs if x.strip()]
RECURSIVE DropBlank(_)
DropBlank(xs) ==
    IF xs = <<>> THEN <<>>
    ELSE IF Strip(Head(xs)) # <<>> THEN <<Head(xs)>> \o DropBlank(Tail(xs))
    ELSE DropBlank(Tail(xs))

\* End offset of the match of \n\s*\n that begins at offset i (the greedy \s*
\* reaches the last newline of the whitespace run), or -1 when none begins there.
ParaMatchEnd(s, i) ==
    LET js == {j \in (i + 1)..(Len(s) - 1) :
                  /\ s[j + 1] = "\n"
                  /\ \A k \in (i + 1)..(j - 1) : IsSpace(s[k + 1])}
    IN  IF i < Len(s) /\ s[i + 1] = "\n" /\ js # {} THEN SetMax(js) + 1 ELSE 0 - 1

\* re.finditer(r'\n\s*\n', s): the <<start, end>> of the matches, from offset from
RECURSIVE ParaMatches(_, _)
ParaMatches(s, from) ==
    LET starts == {i \in from..(Len(s) - 1) : ParaMatchEnd(s, i) # 0 - 1}
    IN  IF starts = {} THEN <<>>
        ELSE LET i == SetMin(starts)
             IN  <<<<i, ParaMatchEnd(s, i)>>>> \o ParaMatches(s, ParaMatchEnd(s, i))

\* re.split: the pieces of s between the matches
RECURSIVE Pieces(_, _, _)
Pieces(s, matches, from) ==
    IF matches = <<>> THEN <<From(s, from)>>
    ELSE <<Slice(s, from, Head(matches)[1])>> \o Pieces(s, Tail(matches), Head(matches)[2])

\* re.split(r'\n\s*\n', s)
SplitParagraphs(s) == Pieces(s, ParaMatches(s, 0), 0)

---------------------------------------------------------------------------
(* The boundary finder *)

\* _try_split_at_paragraphs: the loop choosing best_split
RECURSIVE ParagraphBestSplit(_, _, _)
ParagraphBestSplit(matches, max_length, best_split) ==
    IF matches = <<>> THEN best_split
    ELSE IF Head(matches)[2] <= max_length
         THEN ParagraphBestSplit(Tail(matches), max_length, Some(Head(matches)[2]))
         ELSE best_split

\* SplitPair with the character at the split offset skipped
SplitPairSkipping(text, split_pos, overlap_chars) ==
    <<Strip(Slice(text, 0, split_pos)),
      Strip(From(text, Max(0, split_pos - overlap_chars) + 1))>>

\* the (chunk_text, remaining_text) every tier returns for a split offset
SplitPair(text, split_pos, overlap_chars) ==
    <<Strip(Slice(text, 0, split_pos)), Strip(From(text, Max(0, split_pos - overlap_chars)))>>

TrySplitAtParagraphs(text, max_length, overlap_chars) ==
    LET matches == ParaMatches(text, 0)
        best_split == ParagraphBestSplit(matches, max_length, None)
    IN  IF matches = <<>> THEN <<>>
        ELSE IF TruthyInt(best_split) /\ 2 * Val(best_split) > max_length
        THEN SplitPair(text, Val(best_split), overlap_chars)
        ELSE <<>>

\* the inner while loop of the sentence and clause tiers, for one delimiter
RECURSIVE ScanDelimiter(_, _, _, _, _)
ScanDelimiter(text, d, pos, max_length, best_split) ==
    IF pos >= Len(text) THEN best_split
    ELSE LET found == Find(text, d, pos)
         IN  IF found = 0 - 1 THEN best_split
             ELSE IF found + Len(d) <= max_length
             THEN ScanDelimiter(text, d, found + 1, max_length, Some(found + Len(d)))
             ELSE best_split

\* the outer for loop over the delimiter list, in list order
RECURSIVE ScanDelimiters(_, _, _, _)
ScanDelimiters(text, ds, max_length, best_split) ==
    IF ds = <<>> THEN best_split
    ELSE ScanDelimiters(text, Tail(ds), max_length,
                        ScanDelimiter(text, Head(ds), 0, max_length, best_split))

sentence_endings ==
    << <<".", " ">>, <<"!", " ">>, <<"?", " ">>,
       <<".", "\n">>, <<"!", "\n">>, <<"?", "\n">>,
       <<".", "\"">>, <<"!", "\"">>, <<"?", "\"">>,
       <<".", "'">>, <<"!", "'">>, <<"?", "'">> >>

clause_delimiters ==
    << <<",", " ">>, <<";", " ">>, <<":", " ">>,
       <<" ", "-", " ">>, <<" ", "--", " ">>,   \* "--" is the token of the em dash
       <<" ", "a", "n", "d", " ">>, <<" ", "o", "r", " ">>,
       <<" ", "b", "u", "t", " ">>,
       <<" ", "w", "h", "i", "l", "e", " ">>, <<" ", "w", "h", "e", "n", " ">> >>

SentenceBestSplit(text, max_length) ==
    ScanDelimiters(text, sentence_endings, max_length, None)

ClauseBestSplit(text, max_length) ==
    ScanDelimiters(text, clause_delimiters, max_length, None)

TrySplitAtSentences(text, max_length, overlap_chars) ==
    LET best_split == SentenceBestSplit(text, max_length)
    IN  IF TruthyInt(best_split) /\ 10 * Val(best_split) > 4 * max_length
        THEN SplitPair(text, Val(best_split), overlap_chars)
        ELSE <<>>

TrySplitAtClauses(text, max_length, overlap_chars) ==
    LET best_split == ClauseBestSplit(text, max_length)
    IN  IF TruthyInt(best_split) /\ 10 * Val(best_split) > 3 * max_length
        THEN SplitPair(text, Val(best_split), overlap_chars)
        ELSE <<>>

\* _split_at_words that leaves a word with no space before the limit whole
SplitAtWordsKeepingWord(text, max_length, overlap_chars) ==
    IF Len(text) <= max_length THEN <<text, <<>>>>
    ELSE LET found == RFind(text, <<" ">>, 0, max_length)
             ws == {i \in 0..(Len(text) - 1) : IsSpace(text[i + 1])}
             split_pos == IF found # 0 - 1 THEN found
                          ELSE IF ws = {} THEN Len(text) ELSE SetMin(ws)
         IN  SplitPair(text, split_pos, overlap_chars)

\* _split_at_words without the forced split: split_pos stays -1, so that
\* text[:-1] is the chunk and text[0:] the remainder
SplitAtWordsNoForcedSplit(text, max_length, overlap_chars) ==
    IF Len(text) <= max_length THEN <<text, <<>>>>
    ELSE LET found == RFind(text, <<" ">>, 0, max_length)
         IN  IF found = 0 - 1
             THEN <<Strip(SubSeq(text, 1, Len(text) - 1)), Strip(text)>>
             ELSE SplitPair(text, found, overlap_chars)

SplitAtWords(text, max_length, overlap_chars) ==
    IF Len(text) <= max_length THEN <<text, <<>>>>
    ELSE LET found == RFind(text, <<" ">>, 0, max_length)
             split_pos == IF found = 0 - 1 THEN max_length ELSE found
         IN  SplitPair(text, split_pos, overlap_chars)

FindBestSplitPoint(text, max_length, overlap_chars) ==
    IF Len(text) <= max_length THEN <<text, <<>>>>
    ELSE LET p == TrySplitAtParagraphs(text, max_length, overlap_chars)
         IN  IF p # <<>> THEN p
             ELSE LET s == TrySplitAtSentences(text, max_length, overlap_chars)
                  IN  IF s # <<>> THEN s
                      ELSE LET c == TrySplitAtClauses(text, max_length, overlap_chars)
                           IN  IF c # <<>> THEN c
                               ELSE SplitAtWords(text, max_length, overlap_chars)

\* the tier of the cascade whose split _find_best_split_point returns
SplitTier(text, max_length) ==
    IF Len(text) <= max_length THEN "none"
    ELSE IF TrySplitAtParagraphs(text, max_length, 0) # <<>> THEN "paragraph"
    ELSE IF TrySplitAtSentences(text, max_length, 0) # <<>> THEN "sentence"
    ELSE IF TrySplitAtClauses(text, max_length, 0) # <<>> THEN "clause"
    ELSE "word"

\* the offset that tier cuts the text at: best_split, or split_pos of _split_at_words
SplitPosition(text, max_length) ==
    LET tier == SplitTier(text, max_length)
        found == RFind(text, <<" ">>, 0, max_length)
    IN  IF tier = "none" THEN Len(text)
        ELSE IF tier = "paragraph"
        THEN Val(ParagraphBestSplit(ParaMatches(text, 0), max_length, None))
        ELSE IF tier = "sentence" THEN Val(SentenceBestSplit(text, max_length))
        ELSE IF tier = "clause" THEN Val(ClauseBestSplit(text, max_length))
        ELSE IF found = 0 - 1 THEN max_length ELSE found

---------------------------------------------------------------------------
(* The chunking strategies of chunk_text *)

\* one pass of the while loop of _chunk_hierarchical, for a remaining_text
\* longer than max_length: the <<chunk_text, remaining>> it ends with
HierarchicalStep(remaining, max_length) ==
    LET r == FindBestSplitPoint(remaining, max_length, 0)
    IN  IF r[1] = <<>>
        THEN <<Strip(Slice(remaining, 0, max_length)), Strip(From(remaining, max_length))>>
        ELSE r

RECURSIVE HierarchicalLoop(_, _)
HierarchicalLoop(remaining, max_length) ==
    IF remaining = <<>> THEN <<>>
    ELSE IF Len(remaining) <= max_length THEN <<remaining>>
    ELSE LET r == HierarchicalStep(remaining, max_length)
         IN  <<r[1]>> \o HierarchicalLoop(r[2], max_length)

RECURSIVE DropEmpty(_)
DropEmpty(xs) ==
    IF xs = <<>> THEN <<>>
    ELSE IF Head(xs) # <<>> THEN <<Head(xs)>> \o DropEmpty(Tail(xs))
    ELSE DropEmpty(Tail(xs))

ChunkHierarchical(text, max_length) ==
    DropEmpty(HierarchicalLoop(Strip(text), max_length))

\* [segment.strip() for segment in re.split(...) if segment.strip()]
RECURSIVE StripAll(_)
StripAll(xs) == IF xs = <<>> THEN <<>> ELSE <<Strip(Head(xs))>> \o StripAll(Tail(xs))

\* the for loop of _chunk_by_paragraphs
RECURSIVE ParagraphLoop(_, _, _, _)
ParagraphLoop(paragraphs, max_length, current, out) ==
    IF paragraphs = <<>>
    THEN IF current # None /\ Val(current) # <<>>
         THEN out \o ChunkHierarchical(Val(current), max_length)
         ELSE out
    ELSE LET paragraph == Head(paragraphs)
         IN  IF current = None
             THEN ParagraphLoop(Tail(paragraphs), max_length, Some(paragraph), out)
             ELSE LET candidate == Val(current) \o <<"\n", "\n">> \o paragraph
                  IN  IF Len(candidate) <= max_length
                      THEN ParagraphLoop(Tail(paragraphs), max_length, Some(candidate), out)
                      ELSE ParagraphLoop(Tail(paragraphs), max_length, Some(paragraph),
                                         out \o ChunkHierarchical(Val(current), max_length))

ChunkByParagraphs(text, max_length) ==
    LET paragraphs == StripAll(DropBlank(SplitParagraphs(text)))
    IN  IF paragraphs = <<>> THEN ChunkHierarchical(text, max_length)
        ELSE ParagraphLoop(paragraphs, max_length, None, <<>>)

\* the first for loop of _chunk_by_words
RECURSIVE WordLoop(_, _, _, _, _)
WordLoop(words, max_length, current_words, current_length, out) ==
    IF words = <<>>
    THEN IF current_words # <<>> /\ Strip(Join(current_words, <<" ">>)) # <<>>
         THEN out \o <<Strip(Join(current_words, <<" ">>))>>
         ELSE out
    ELSE LET word == Head(words)
             additional_length == IF current_words = <<>> THEN Len(word) ELSE Len(word) + 1
         IN  IF current_words # <<>> /\ current_length + additional_length > max_length
             THEN LET chunk == Strip(Join(current_words, <<" ">>))
                  IN  WordLoop(Tail(words), max_length, <<word>>, Len(word),
                               IF chunk # <<>> THEN out \o <<chunk>> ELSE out)
             ELSE WordLoop(Tail(words), max_length, current_words \o <<word>>,
                           current_length + additional_length, out)

\* the second for loop of _chunk_by_words
RECURSIVE RefineChunks(_, _)
RefineChunks(cs, max_length) ==
    IF cs = <<>> THEN <<>>
    ELSE (IF Len(Head(cs)) > max_length
          THEN ChunkHierarchical(Head(cs), max_length)
          ELSE <<Head(cs)>>) \o RefineChunks(Tail(cs), max_length)

ChunkByWords(text, max_length) ==
    LET words == SplitWords(text)
    IN  IF words = <<>> THEN <<>>
        ELSE RefineChunks(WordLoop(words, max_length, <<>>, 0, <<>>), max_length)

\* range(0, n, step) slices of s, each stripped, the blank ones dropped
RECURSIVE FixedSlices(_, _, _)
FixedSlices(s, i, step) ==
    IF step <= 0 \/ i >= Len(s) THEN <<>>
    ELSE LET chunk == Strip(Slice(s, i, i + step))
         IN  (IF chunk # <<>> THEN <<chunk>> ELSE <<>>) \o FixedSlices(s, i + step, step)

\* str.lower() on the strategy names the model draws
Lower(name) == IF name = "FIXED" THEN "fixed" ELSE name

\* max_length as chunk_text and split_text_for_long_generation resolve it
ResolveMaxLength(max_length, config) ==
    IF max_length = None \/ Val(max_length) <= 0
    THEN config.LONG_TEXT_CHUNK_SIZE
    ELSE Val(max_length)

\* effective_max of chunk_text
EffectiveMax(max_length, config) ==
    LET m == ResolveMaxLength(max_length, config)
        e == Min(m, config.MAX_TOTAL_LENGTH - 100)
    IN  IF e <= 0 THEN m ELSE e

ChunkText(text, strategy, max_length, config) ==
    LET effective_max == EffectiveMax(max_length, config)
        cleaned == Strip(text)
        normalized_strategy ==
            Lower(IF TruthyStr(strategy) THEN Val(strategy) ELSE "sentence")
    IN  IF cleaned = <<>> THEN <<>>
        ELSE IF normalized_strategy = "fixed" THEN FixedSlices(cleaned, 0, effective_max)
        ELSE IF normalized_strategy = "paragraph" THEN ChunkByParagraphs(cleaned, effective_max)
        ELSE IF normalized_strategy = "word" THEN ChunkByWords(cleaned, effective_max)
        ELSE ChunkHierarchical(cleaned, effective_max)

\* the LongTextChunk records of split_text_for_long_generation
LongTextChunks(chunk_strings) ==
    [index \in 1..Len(chunk_strings) |->
        [index |-> index - 1,
         text |-> chunk_strings[index],
         text_preview |-> Slice(chunk_strings[index], 0, 50)
                          \o (IF Len(chunk_strings[index]) > 50 THEN <<".", ".", ".">> ELSE <<>>),
         character_count |-> Len(chunk_strings[index])]]

SplitTextForLongGeneration(text, max_chunk_size, strategy, config) ==
    LET size == ResolveMaxLength(max_chunk_size, config)
        resolved_strategy ==
            IF TruthyStr(strategy) THEN Val(strategy)
            ELSE config.LONG_TEXT_CHUNKING_STRATEGY
    IN  LongTextChunks(ChunkText(text, Some(resolved_strategy), Some(size), config))

---------------------------------------------------------------------------
(* The streaming splitters of split_text_for_streaming *)

\* End offset of the match of (?<=[.!?])\s+ that begins at offset i, or -1
SentMatchEnd(s, i) ==
    IF i >= 1 /\ i < Len(s) /\ s[i] \in {".", "!", "?"} /\ IsSpace(s[i + 1])
    THEN LET stops == {j \in (i + 1)..(Len(s) - 1) : ~IsSpace(s[j + 1])}
         IN  IF stops = {} THEN Len(s) ELSE SetMin(stops)
    ELSE 0 - 1

RECURSIVE SentMatches(_, _)
SentMatches(s, from) ==
    LET starts == {i \in from..(Len(s) - 1) : SentMatchEnd(s, i) # 0 - 1}
    IN  IF starts = {} THEN <<>>
        ELSE LET i == SetMin(starts)
             IN  <<<<i, SentMatchEnd(s, i)>>>> \o SentMatches(s, SentMatchEnd(s, i))

\* re.split(r'(?<=[.!?])\s+', s)
SplitSentences(s) == Pieces(s, SentMatches(s, 0), 0)

\* word[i:i + max_length] for i in range(0, len(word), max_length)
RECURSIVE WordSlices(_, _, _)
WordSlices(word, i, step) ==
    IF step <= 0 \/ i >= Len(word) THEN <<>>
    ELSE <<Slice(word, i, i + step)>> \o WordSlices(word, i + step, step)

\* the for loop of _split_by_words without the + 1 for the space
RECURSIVE StreamWordLoopNoSpace(_, _, _, _)
StreamWordLoopNoSpace(words, max_length, current_chunk, out) ==
    IF words = <<>>
    THEN IF current_chunk # <<>> THEN out \o <<Strip(current_chunk)>> ELSE out
    ELSE LET word == Head(words)
         IN  IF Len(current_chunk) + Len(word) <= max_length
             THEN StreamWordLoopNoSpace(Tail(words), max_length,
                                        IF current_chunk # <<>>
                                        THEN current_chunk \o <<" ">> \o word
                                        ELSE word,
                                        out)
             ELSE LET saved == IF current_chunk # <<>> THEN out \o <<Strip(current_chunk)>>
                               ELSE out
                  IN  IF Len(word) > max_length
                      THEN StreamWordLoopNoSpace(Tail(words), max_length, <<>>,
                                                 saved \o WordSlices(word, 0, max_length))
                      ELSE StreamWordLoopNoSpace(Tail(words), max_length, word, saved)

\* the for loop of _split_by_words
RECURSIVE StreamWordLoop(_, _, _, _)
StreamWordLoop(words, max_length, current_chunk, out) ==
    IF words = <<>>
    THEN IF current_chunk # <<>> THEN out \o <<Strip(current_chunk)>> ELSE out
    ELSE LET word == Head(words)
         IN  IF Len(current_chunk) + Len(word) + 1 <= max_length
             THEN StreamWordLoop(Tail(words), max_length,
                                 IF current_chunk # <<>> THEN current_chunk \o <<" ">> \o word
                                 ELSE word,
                                 out)
             ELSE LET saved == IF current_chunk # <<>> THEN out \o <<Strip(current_chunk)>>
                               ELSE out
                  IN  IF Len(word) > max_length
                      THEN StreamWordLoop(Tail(words), max_length, <<>>,
                                          saved \o WordSlices(word, 0, max_length))
                      ELSE StreamWordLoop(Tail(words), max_length, word, saved)

SplitByWords(text, max_length) ==
    DropBlank(StreamWordLoop(SplitWords(text), max_length, <<>>, <<>>))

SplitByFixedSize(text, chunk_size) == FixedSlices(text, 0, chunk_size)

\* the loop over the parts of one chunk.split(delimiter) in _split_long_sentence
RECURSIVE PartLoop(_, _, _, _, _)
PartLoop(parts, delimiter, max_length, current_part, out) ==
    IF parts = <<>>
    THEN IF current_part # <<>> THEN out \o <<current_part>> ELSE out
    ELSE LET part == Head(parts)
         IN  IF Len(current_part) + Len(delimiter) + Len(part) <= max_length
             THEN PartLoop(Tail(parts), delimiter, max_length,
                           (IF current_part # <<>> THEN current_part \o delimiter ELSE <<>>)
                               \o part,
                           out)
             ELSE PartLoop(Tail(parts), delimiter, max_length, part,
                           IF current_part # <<>> THEN out \o <<current_part>> ELSE out)

\* one delimiter's pass over the chunks
RECURSIVE DelimiterPass(_, _, _)
DelimiterPass(cs, delimiter, max_length) ==
    IF cs = <<>> THEN <<>>
    ELSE (IF Len(Head(cs)) <= max_length THEN <<Head(cs)>>
          ELSE PartLoop(SplitOn(Head(cs), delimiter), delimiter, max_length, <<>>, <<>>))
         \o DelimiterPass(Tail(cs), delimiter, max_length)

RECURSIVE DelimiterFold(_, _, _)
DelimiterFold(cs, delimiters, max_length) ==
    IF delimiters = <<>> THEN cs
    ELSE DelimiterFold(DelimiterPass(cs, Head(delimiters), max_length),
                       Tail(delimiters), max_length)

\* the final fallback of _split_long_sentence
RECURSIVE WordFallback(_, _)
WordFallback(cs, max_length) ==
    IF cs = <<>> THEN <<>>
    ELSE (IF Len(Head(cs)) <= max_length THEN <<Head(cs)>>
          ELSE SplitByWords(Head(cs), max_length))
         \o WordFallback(Tail(cs), max_length)

\* " — " is written with the token "--"
long_sentence_delimiters ==
    << <<",", " ">>, <<";", " ">>, <<" ", "-", " ">>, <<" ", "--", " ">>, <<":", " ">>,
       <<" ", "a", "n", "d", " ">>, <<" ", "o", "r", " ">>, <<" ", "b", "u", "t", " ">> >>

SplitLongSentence(sentence, max_length) ==
    StripAll(DropBlank(WordFallback(
        DelimiterFold(<<sentence>>, long_sentence_delimiters, max_length), max_length)))

\* the for loop of _split_by_sentences
RECURSIVE SentenceLoop(_, _, _, _)
SentenceLoop(sentences, max_length, current_chunk, out) ==
    IF sentences = <<>>
    THEN IF current_chunk # <<>> THEN out \o <<Strip(current_chunk)>> ELSE out
    ELSE LET sentence == Strip(Head(sentences))
         IN  IF sentence = <<>>
             THEN SentenceLoop(Tail(sentences), max_length, current_chunk, out)
             ELSE IF Len(current_chunk) + Len(sentence) + 1 <= max_length
             THEN SentenceLoop(Tail(sentences), max_length,
                               IF current_chunk # <<>>
                               THEN current_chunk \o <<" ">> \o sentence
                               ELSE sentence,
                               out)
             ELSE LET saved == IF current_chunk # <<>> THEN out \o <<Strip(current_chunk)>>
                               ELSE out
                  IN  IF Len(sentence) > max_length
                      THEN SentenceLoop(Tail(sentences), max_length, <<>>,
                                        saved \o SplitLongSentence(sentence, max_length))
                      ELSE SentenceLoop(Tail(sentences), max_length, sentence, saved)

SplitBySentences(text, max_length) ==
    DropBlank(SentenceLoop(SplitSentences(Strip(text)), max_length, <<>>, <<>>))

\* the for loop of _split_by_paragraphs
RECURSIVE StreamParagraphLoop(_, _, _, _)
StreamParagraphLoop(paragraphs, max_length, current_chunk, out) ==
    IF paragraphs = <<>>
    THEN IF current_chunk # <<>> THEN out \o <<Strip(current_chunk)>> ELSE out
    ELSE LET paragraph == Strip(Head(paragraphs))
         IN  IF paragraph = <<>>
             THEN StreamParagraphLoop(Tail(paragraphs), max_length, current_chunk, out)
             ELSE IF Len(current_chunk) + Len(paragraph) + 2 <= max_length
             THEN StreamParagraphLoop(Tail(paragraphs), max_length,
                                      IF current_chunk # <<>>
                                      THEN current_chunk \o <<"\n", "\n">> \o paragraph
                                      ELSE paragraph,
                                      out)
             ELSE LET saved == IF current_chunk # <<>> THEN out \o <<Strip(current_chunk)>>
                               ELSE out
                  IN  IF Len(paragraph) > max_length
                      THEN StreamParagraphLoop(Tail(paragraphs), max_length, <<>>,
                                               saved \o SplitBySentences(paragraph, max_length))
                      ELSE StreamParagraphLoop(Tail(paragraphs), max_length, paragraph, saved)

SplitByParagraphs(text, max_length) ==
    DropBlank(StreamParagraphLoop(SplitParagraphs(Strip(text)), max_length, <<>>, <<>>))

---------------------------------------------------------------------------
(* The legacy splitter split_text_into_chunks *)

legacy_sentence_endings ==
    << <<".", " ">>, <<"!", " ">>, <<"?", " ">>,
       <<".", "\n">>, <<"!", "\n">>, <<"?", "\n">> >>

\* " — " is written with the token "--"
sub_delimiters == << <<",", " ">>, <<";", " ">>, <<" ", "-", " ">>, <<" ", "--", " ">> >>

\* the for loop over sentence_endings: pos is compared with the running best_split
RECURSIVE LegacyBestSplit(_, _, _)
LegacyBestSplit(temp_text, endings, best_split) ==
    IF endings = <<>> THEN best_split
    ELSE LET pos == Find(temp_text, Head(endings), 0)
         IN  LegacyBestSplit(temp_text, Tail(endings),
                             IF pos # 0 - 1 /\ pos < best_split
                             THEN pos + Len(Head(endings))
                             ELSE best_split)

\* the while loop cutting the text into sentences
RECURSIVE LegacySentences(_)
LegacySentences(temp_text) ==
    IF temp_text = <<>> THEN <<>>
    ELSE LET best_split == LegacyBestSplit(temp_text, legacy_sentence_endings, Len(temp_text))
         IN  IF best_split = Len(temp_text) THEN <<temp_text>>
             ELSE <<Slice(temp_text, 0, best_split)>>
                     \o LegacySentences(From(temp_text, best_split))

\* the last resort: the word loop over one sub-chunk
RECURSIVE LegacyWordLoop(_, _, _, _)
LegacyWordLoop(words, max_length, current_word_chunk, out) ==
    IF words = <<>>
    THEN IF current_word_chunk # <<>> THEN out \o <<current_word_chunk>> ELSE out
    ELSE LET word == Head(words)
         IN  IF Len(current_word_chunk) + Len(word) + 1 <= max_length
             THEN LegacyWordLoop(Tail(words), max_length,
                                 IF current_word_chunk # <<>>
                                 THEN current_word_chunk \o <<" ">> \o word
                                 ELSE word,
                                 out)
             ELSE LegacyWordLoop(Tail(words), max_length, word,
                                 IF current_word_chunk # <<>>
                                 THEN out \o <<current_word_chunk>> ELSE out)

\* the for loop adding the sub-chunks of an over-long sentence
RECURSIVE LegacySubChunks(_, _)
LegacySubChunks(sub_chunks, max_length) ==
    IF sub_chunks = <<>> THEN <<>>
    ELSE (IF Len(Head(sub_chunks)) <= max_length THEN <<Strip(Head(sub_chunks))>>
          ELSE LegacyWordLoop(SplitWords(Head(sub_chunks)), max_length, <<>>, <<>>))
         \o LegacySubChunks(Tail(sub_chunks), max_length)

\* the for loop grouping the sentences into chunks
RECURSIVE LegacyGroupLoop(_, _, _, _)
LegacyGroupLoop(sentences, max_length, current_chunk, out) ==
    IF sentences = <<>>
    THEN IF current_chunk # <<>> THEN out \o <<Strip(current_chunk)>> ELSE out
    ELSE LET sentence == Strip(Head(sentences))
         IN  IF sentence = <<>>
             THEN LegacyGroupLoop(Tail(sentences), max_length, current_chunk, out)
             ELSE IF Len(current_chunk) + Len(sentence) <= max_length
             THEN LegacyGroupLoop(Tail(sentences), max_length,
                                  (IF current_chunk # <<>> THEN current_chunk \o <<" ">>
                                   ELSE <<>>) \o sentence,
                                  out)
             ELSE LET saved == IF current_chunk # <<>> THEN out \o <<Strip(current_chunk)>>
                               ELSE out
                  IN  IF Len(sentence) > max_length
                      THEN LegacyGroupLoop(Tail(sentences), max_length, <<>>,
                               saved \o LegacySubChunks(
                                   DelimiterFold(<<sentence>>, sub_delimiters, max_length),
                                   max_length))
                      ELSE LegacyGroupLoop(Tail(sentences), max_length, sentence, saved)

\* max_length as split_text_into_chunks resolves it
LegacyMaxLength(max_length, config) ==
    IF max_length = None THEN config.MAX_CHUNK_LENGTH ELSE Val(max_length)

SplitTextIntoChunks(text, max_length, config) ==
    LET m == LegacyMaxLength(max_length, config)
    IN  IF Len(text) <= m THEN <<text>>
        ELSE DropBlank(LegacyGroupLoop(LegacySentences(text), m, <<>>, <<>>))

---------------------------------------------------------------------------
(* The streaming profile resolver *)

\* chunk_size as split_text_for_streaming resolves it
StreamingChunkSize(chunk_size, quality) ==
    LET preset ==
            IF TruthyStr(quality)
            THEN IF Val(quality) = "fast"
                 THEN (IF TruthyInt(chunk_size) THEN chunk_size ELSE Some(100))
                 ELSE IF Val(quality) = "balanced"
                 THEN (IF TruthyInt(chunk_size) THEN chunk_size ELSE Some(200))
                 ELSE IF Val(quality) = "high"
                 THEN (IF TruthyInt(chunk_size) THEN chunk_size ELSE Some(300))
                 ELSE chunk_size
            ELSE chunk_size
    IN  IF TruthyInt(preset) THEN Val(preset) ELSE 200

\* strategy as split_text_for_streaming resolves it
StreamingStrategy(strategy, quality) ==
    LET preset ==
            IF TruthyStr(quality)
            THEN IF Val(quality) = "fast"
                 THEN (IF TruthyStr(strategy) THEN strategy ELSE Some("word"))
                 ELSE IF Val(quality) = "balanced"
                 THEN (IF TruthyStr(strategy) THEN strategy ELSE Some("sentence"))
                 ELSE IF Val(quality) = "high"
                 THEN (IF TruthyStr(strategy) THEN strategy ELSE Some("paragraph"))
                 ELSE strategy
            ELSE strategy
    IN  IF TruthyStr(preset) THEN Val(preset) ELSE "sentence"

SplitTextForStreaming(text, chunk_size, strategy, quality) ==
    LET size == StreamingChunkSize(chunk_size, quality)
        strat == StreamingStrategy(strategy, quality)
    IN  IF strat = "paragraph" THEN SplitByParagraphs(text, size)
        ELSE IF strat = "sentence" THEN SplitBySentences(text, size)
        ELSE IF strat = "word" THEN SplitByWords(text, size)
        ELSE IF strat = "fixed" THEN SplitByFixedSize(text, size)
        ELSE SplitBySentences(text, size)

\* get_streaming_settings with the strategy preset applied only when the
\* chunk size is not overridden either
GetStreamingSettingsCoupled(streaming_chunk_size, streaming_strategy, streaming_quality) ==
    LET preset == TruthyStr(streaming_quality) /\ ~TruthyInt(streaming_chunk_size)
    IN  [chunk_size |-> IF TruthyInt(streaming_chunk_size) THEN Val(streaming_chunk_size)
                        ELSE IF preset /\ Val(streaming_quality) = "fast" THEN 100
                        ELSE IF preset /\ Val(streaming_quality) = "high" THEN 300
                        ELSE 200,
         strategy |-> IF TruthyStr(streaming_strategy) THEN Val(streaming_strategy)
                      ELSE IF preset /\ Val(streaming_quality) = "fast" THEN "word"
                      ELSE IF preset /\ Val(streaming_quality) = "high" THEN "paragraph"
                      ELSE "sentence",
         quality |-> IF TruthyStr(streaming_quality)
                     THEN Val(streaming_quality) ELSE "balanced"]

GetStreamingSettings(streaming_chunk_size, streaming_strategy, streaming_quality) ==
    LET settings0 ==
            [chunk_size |-> IF TruthyInt(streaming_chunk_size)
                            THEN Val(streaming_chunk_size) ELSE 200,
             strategy |-> IF TruthyStr(streaming_strategy)
                          THEN Val(streaming_strategy) ELSE "sentence",
             quality |-> IF TruthyStr(streaming_quality)
                         THEN Val(streaming_quality) ELSE "balanced"]
        settings1 ==
            IF TruthyStr(streaming_quality) /\ ~TruthyInt(streaming_chunk_size)
            THEN IF Val(streaming_quality) = "fast"
                 THEN [settings0 EXCEPT !.chunk_size = 100]
                 ELSE IF Val(streaming_quality) = "high"
                 THEN [settings0 EXCEPT !.chunk_size = 300]
                 ELSE settings0
            ELSE settings0
    IN  IF TruthyStr(streaming_quality) /\ ~TruthyStr(streaming_strategy)
        THEN IF Val(streaming_quality) = "fast"
             THEN [settings1 EXCEPT !.strategy = "word"]
             ELSE IF Val(streaming_quality) = "high"
             THEN [settings1 EXCEPT !.strategy = "paragraph"]
             ELSE settings1
        ELSE settings1

---------------------------------------------------------------------------
(* The processing-time estimator.  base_time is the exact quotient           *)
(* text_length / avg_chars_per_second; int() of the non-negative sum         *)
(* base_time + overhead is the floor of (text_length + overhead * avg) / avg *)

EffectiveChunkSize(chunk_size, config) ==
    LET effective_chunk_size ==
            IF TruthyInt(chunk_size) THEN Val(chunk_size) ELSE config.LONG_TEXT_CHUNK_SIZE
    IN  IF effective_chunk_size <= 0 THEN config.LONG_TEXT_CHUNK_SIZE
        ELSE effective_chunk_size

\* num_chunks with the quotient rounded down
NumChunksRoundedDown(text_length, effective_chunk_size) ==
    Max(1, text_length \div effective_chunk_size)

NumChunks(text_length, effective_chunk_size) ==
    Max(1, (text_length + effective_chunk_size - 1) \div effective_chunk_size)

EstimateProcessingTime(text_length, avg_chars_per_second, chunk_size, config) ==
    LET num_chunks == NumChunks(text_length, EffectiveChunkSize(chunk_size, config))
        overhead == 5 + (num_chunks * 2) + 10
    IN  (text_length + overhead * avg_chars_per_second) \div avg_chars_per_second

---------------------------------------------------------------------------
(* The input validator *)

\* set(words)
SetOf(xs) == {xs[i] : i \in 1..Len(xs)}

\* the repetition test with <= in place of <
ExcessivelyRepetitiveInclusive(words) == 10 * Cardinality(SetOf(words)) <= Len(words)

\* len(set(words)) < len(words) * 0.1, in exact arithmetic
ExcessivelyRepetitive(words) == 10 * Cardinality(SetOf(words)) < Len(words)

\* the text of an integer or of a string
Str(x) == ToString(x)

ValidateLongTextInput(text, config) ==
    LET text_length == Len(Strip(text))
        min_length == config.LONG_TEXT_MIN_LENGTH
        max_length == config.LONG_TEXT_MAX_LENGTH
    IN  IF text = <<>> \/ Strip(text) = <<>>
        THEN <<FALSE, <<"Input text cannot be empty">>>>
        ELSE IF text_length < min_length
        THEN <<FALSE, <<"Text must be at least ", Str(min_length),
                        " characters for long-text processing (received ",
                        Str(text_length), " characters)">>>>
        ELSE IF text_length > max_length
        THEN <<FALSE, <<"Text is too long (", Str(text_length),
                        " characters). Maximum allowed: ", Str(max_length)>>>>
        ELSE IF ExcessivelyRepetitive(SplitWords(text))
        THEN <<FALSE, <<"Text appears to be excessively repetitive">>>>
        ELSE <<TRUE, <<>>>>

---------------------------------------------------------------------------
(* The audio stitcher.  A tensor of shape (c, n) is a sequence of c rows of *)
(* n samples each.                                                          *)

Rows(t) == Len(t)
Cols(t) == IF t = <<>> THEN 0 ELSE Len(t[1])

\* torch.zeros(rows, n)
Zeros(rows, n) == [r \in 1..rows |-> [k \in 1..n |-> 0]]

\* torch.cat(ts, dim=1): the sizes must match except in dimension 1
RECURSIVE CatRows(_, _)
CatRows(ts, r) == IF ts = <<>> THEN <<>> ELSE Head(ts)[r] \o CatRows(Tail(ts), r)

Cat(ts) ==
    IF \E i \in 1..Len(ts) : Rows(ts[i]) # Rows(ts[1])
    THEN [ok |-> FALSE, error |-> "RuntimeError"]
    ELSE [ok |-> TRUE, value |-> [r \in 1..Rows(ts[1]) |-> CatRows(ts, r)]]

\* int(0.1 * sample_rate)
SilenceSamples(sample_rate) == sample_rate \div 10

\* the for loop over audio_chunks[1:]
RECURSIVE ConcatLoop(_, _, _)
ConcatLoop(concatenated, rest, silence) ==
    IF rest = <<>> THEN [ok |-> TRUE, value |-> concatenated]
    ELSE LET c == Cat(<<concatenated, silence, Head(rest)>>)
         IN  IF c.ok THEN ConcatLoop(c.value, Tail(rest), silence) ELSE c

ConcatenateAudioChunks(audio_chunks, sample_rate) ==
    IF Len(audio_chunks) = 1 THEN [ok |-> TRUE, value |-> audio_chunks[1]]
    ELSE ConcatLoop(audio_chunks[1], Tail(audio_chunks),
                    Zeros(1, SilenceSamples(sample_rate)))

---------------------------------------------------------------------------
(* Inputs *)

Alphabet == {"a", " ", "\n", ".", ","}

RECURSIVE TextsOver(_, _)
TextsOver(alphabet, n) ==
    IF n = 0 THEN {<<>>}
    ELSE {Append(t, c) : t \in TextsOver(alphabet, n - 1), c \in alphabet}

TextsUpTo(alphabet, n) == UNION {TextsOver(alphabet, k) : k \in 0..n}

\* Config is read once at start-up; its values are inputs of the program
Configs ==
    {[LONG_TEXT_CHUNK_SIZE |-> 3, MAX_TOTAL_LENGTH |-> 100,
      LONG_TEXT_CHUNKING_STRATEGY |-> "sentence", MAX_CHUNK_LENGTH |-> 3,
      LONG_TEXT_MIN_LENGTH |-> 1, LONG_TEXT_MAX_LENGTH |-> 100],
     [LONG_TEXT_CHUNK_SIZE |-> 4, MAX_TOTAL_LENGTH |-> 102,
      LONG_TEXT_CHUNKING_STRATEGY |-> "word", MAX_CHUNK_LENGTH |-> 2,
      LONG_TEXT_MIN_LENGTH |-> 5, LONG_TEXT_MAX_LENGTH |-> 19]}

\* the configuration of the calls that read none of it
DefaultConfig == CHOOSE c \in Configs : c.LONG_TEXT_CHUNK_SIZE = 3

Opt(values) == {None} \cup {Some(x) : x \in values}

ChunkStrategies == Opt({"FIXED", "paragraph", "word", "sentence", "other"})
StreamStrategies == Opt({"fixed", "paragraph", "word", "sentence", "other"})
Qualities == Opt({"fast", "balanced", "high", "ultra"})

\* every chunk size, absent, negative and zero included
AnySizes == Opt((0 - 1)..MaxChunkArg)
PositiveSizes == Opt(1..MaxChunkArg)

NoLocals == [none |-> TRUE]

---------------------------------------------------------------------------
(* The calls *)

CallChunkText(sizes) ==
    /\ fn = "chunk_text" /\ pc = "ready"
    /\ \E strategy \in ChunkStrategies, max_length \in sizes :
          /\ args' = [text |-> args.text, strategy |-> strategy, max_length |-> max_length]
          /\ locals' = [max_length |-> ResolveMaxLength(max_length, cfg),
                        effective_max |-> EffectiveMax(max_length, cfg)]
          /\ ret' = ChunkText(args.text, strategy, max_length, cfg)
    /\ pc' = "done"
    /\ UNCHANGED <<cfg, fn>>

CallSplitTextForLongGeneration(sizes) ==
    /\ fn = "split_text_for_long_generation" /\ pc = "ready"
    /\ \E strategy \in ChunkStrategies, max_chunk_size \in sizes :
          /\ args' = [text |-> args.text, max_chunk_size |-> max_chunk_size,
                      strategy |-> strategy]
          /\ locals' = [max_chunk_size |-> ResolveMaxLength(max_chunk_size, cfg)]
          /\ ret' = SplitTextForLongGeneration(args.text, max_chunk_size, strategy, cfg)
    /\ pc' = "done"
    /\ UNCHANGED <<cfg, fn>>

CallSplitTextForStreaming(sizes, qualities) ==
    /\ fn = "split_text_for_streaming" /\ pc = "ready"
    /\ \E chunk_size \in sizes, strategy \in StreamStrategies, quality \in qualities :
          /\ args' = [text |-> args.text, chunk_size |-> chunk_size,
                      strategy |-> strategy, quality |-> quality]
          /\ locals' = [chunk_size |-> StreamingChunkSize(chunk_size, quality),
                        strategy |-> StreamingStrategy(strategy, quality)]
          /\ ret' = SplitTextForStreaming(args.text, chunk_size, strategy, quality)
    /\ pc' = "done"
    /\ UNCHANGED <<cfg, fn>>

CallSplitTextIntoChunks(sizes) ==
    /\ fn = "split_text_into_chunks" /\ pc = "ready"
    /\ \E max_length \in sizes :
          /\ args' = [text |-> args.text, max_length |-> max_length]
          /\ locals' = [max_length |-> LegacyMaxLength(max_length, cfg)]
          /\ ret' = SplitTextIntoChunks(args.text, max_length, cfg)
    /\ pc' = "done"
    /\ UNCHANGED <<cfg, fn>>

CallGetStreamingSettings ==
    /\ fn = "get_streaming_settings" /\ pc = "ready"
    /\ ret' = GetStreamingSettings(args.chunk_size, args.strategy, args.quality)
    /\ pc' = "done"
    /\ UNCHANGED <<cfg, fn, args, locals>>

CallEstimateProcessingTime ==
    /\ fn = "estimate_processing_time" /\ pc = "ready"
    /\ locals' = [effective_chunk_size |-> EffectiveChunkSize(args.chunk_size, cfg),
                  num_chunks |-> NumChunks(args.text_length,
                                           EffectiveChunkSize(args.chunk_size, cfg))]
    /\ ret' = EstimateProcessingTime(args.text_length, args.avg_chars_per_second,
                                     args.chunk_size, cfg)
    /\ pc' = "done"
    /\ UNCHANGED <<cfg, fn, args>>

CallValidateLongTextInput ==
    /\ fn = "validate_long_text_input" /\ pc = "ready"
    /\ ret' = ValidateLongTextInput(args.text, cfg)
    /\ pc' = "done"
    /\ UNCHANGED <<cfg, fn, args, locals>>

CallConcatenateAudioChunks ==
    /\ fn = "concatenate_audio_chunks" /\ pc = "ready"
    /\ ret' = ConcatenateAudioChunks(args.audio_chunks, args.sample_rate)
    /\ pc' = "done"
    /\ UNCHANGED <<cfg, fn, args, locals>>

CallFindBestSplitPoint ==
    /\ fn = "_find_best_split_point" /\ pc = "ready"
    /\ locals' = [tier |-> SplitTier(args.text, args.max_length),
                  split_pos |-> SplitPosition(args.text, args.max_length)]
    /\ ret' = FindBestSplitPoint(args.text, args.max_length, 0)
    /\ pc' = "done"
    /\ UNCHANGED <<cfg, fn, args>>

CallTrySplitAtSentences ==
    /\ fn = "_try_split_at_sentences" /\ pc = "ready"
    /\ locals' = [best_split |-> SentenceBestSplit(args.text, args.max_length)]
    /\ ret' = TrySplitAtSentences(args.text, args.max_length, 0)
    /\ pc' = "done"
    /\ UNCHANGED <<cfg, fn, args>>

CallTrySplitAtClauses ==
    /\ fn = "_try_split_at_clauses" /\ pc = "ready"
    /\ locals' = [best_split |-> ClauseBestSplit(args.text, args.max_length)]
    /\ ret' = TrySplitAtClauses(args.text, args.max_length, 0)
    /\ pc' = "done"
    /\ UNCHANGED <<cfg, fn, args>>

\* _chunk_hierarchical, one pass of its while loop at a time
HierEnter ==
    /\ fn = "_chunk_hierarchical" /\ pc = "ready"
    /\ locals' = [remaining_text |-> Strip(args.text), chunks |-> <<>>]
    /\ pc' = "loop"
    /\ UNCHANGED <<cfg, fn, args, ret>>

HierIterate ==
    /\ fn = "_chunk_hierarchical" /\ pc = "loop"
    /\ locals.remaining_text # <<>>
    /\ IF Len(locals.remaining_text) <= args.max_length
       THEN /\ locals' = [locals EXCEPT !.chunks = Append(@, locals.remaining_text)]
            /\ pc' = "exit"
       ELSE LET r == HierarchicalStep(locals.remaining_text, args.max_length)
            IN  /\ locals' = [remaining_text |-> r[2],
                              chunks |-> Append(locals.chunks, r[1])]
                /\ pc' = "loop"
    /\ UNCHANGED <<cfg, fn, args, ret>>

HierReturn ==
    /\ fn = "_chunk_hierarchical"
    /\ pc = "exit" \/ (pc = "loop" /\ locals.remaining_text = <<>>)
    /\ ret' = DropEmpty(locals.chunks)
    /\ pc' = "done"
    /\ UNCHANGED <<cfg, fn, args, locals>>

---------------------------------------------------------------------------
(* The chunkers on every text: chunk_text, split_text_for_long_generation   *)
(* and split_text_for_streaming with a chunk size that is absent or positive *)

Ready(fns, configs) ==
    /\ cfg \in configs
    /\ fn \in fns
    /\ pc = "ready"
    /\ locals = NoLocals
    /\ ret = <<>>

InitChunk ==
    /\ Ready({"chunk_text", "split_text_for_long_generation", "split_text_for_streaming"},
             Configs)
    /\ args \in [text : TextsUpTo(Alphabet, MaxTextLen)]

NextChunk ==
    \/ CallChunkText(AnySizes)
    \/ CallSplitTextForLongGeneration(AnySizes)
    \/ CallSplitTextForStreaming(PositiveSizes, {None})

SpecChunk == InitChunk /\ [][NextChunk]_vars

---------------------------------------------------------------------------
(* The entry points that take a chunk size, with every size and preset *)

InitEntry ==
    /\ Ready({"chunk_text", "split_text_for_long_generation", "split_text_for_streaming",
              "get_streaming_settings", "estimate_processing_time"}, Configs)
    /\ IF fn = "get_streaming_settings"
       THEN args \in [chunk_size : AnySizes \cup {Some(150)}, strategy : StreamStrategies,
                      quality : Qualities \cup {Some("")}]
       ELSE IF fn = "estimate_processing_time"
       THEN args \in [text_length : (0..MaxTextLength) \cup {1000},
                      avg_chars_per_second : {1, 3, 25},
                      chunk_size : AnySizes \cup {Some(200)}]
       ELSE args \in [text : TextsUpTo(Alphabet, MaxEntryTextLen)]

NextEntry ==
    \/ CallChunkText(AnySizes)
    \/ CallSplitTextForLongGeneration(AnySizes)
    \/ CallSplitTextForStreaming(AnySizes \cup {Some(150)}, Qualities \cup {Some("")})
    \/ CallGetStreamingSettings
    \/ CallEstimateProcessingTime

SpecEntry == InitEntry /\ [][NextEntry]_vars

---------------------------------------------------------------------------
(* The boundary finder and its sentence and clause tiers, on the texts       *)
(* _chunk_hierarchical gives them: stripped and longer than max_length       *)

InitSplit ==
    /\ Ready({"_find_best_split_point", "_try_split_at_sentences", "_try_split_at_clauses"},
             {DefaultConfig})
    /\ args \in [text : {t \in TextsUpTo(Alphabet \cup {";"}, MaxSplitTextLen) : Strip(t) = t},
                 max_length : 1..(MaxSplitTextLen - 1)]
    /\ Len(args.text) > args.max_length

NextSplit == CallFindBestSplitPoint \/ CallTrySplitAtSentences \/ CallTrySplitAtClauses

SpecSplit == InitSplit /\ [][NextSplit]_vars

---------------------------------------------------------------------------
(* _chunk_hierarchical, pass by pass.  The loop runs to its end once         *)
(* entered: weak fairness of its steps.                                      *)

InitHier ==
    /\ Ready({"_chunk_hierarchical"}, {DefaultConfig})
    /\ args \in [text : TextsUpTo(Alphabet, MaxHierTextLen), max_length : 1..MaxChunkArg]

NextHier == HierEnter \/ HierIterate \/ HierReturn

SpecHier == InitHier /\ [][NextHier]_vars /\ WF_vars(NextHier)

---------------------------------------------------------------------------
(* The legacy splitter and the streaming splitter on every text, with a     *)
(* chunk size that is absent or positive                                     *)

InitLegacy ==
    /\ Ready({"split_text_into_chunks", "split_text_for_streaming"}, Configs)
    /\ args \in [text : TextsUpTo(Alphabet, MaxTextLen)]

NextLegacy ==
    \/ CallSplitTextIntoChunks(PositiveSizes)
    \/ CallSplitTextForStreaming(PositiveSizes, {None})

SpecLegacy == InitLegacy /\ [][NextLegacy]_vars

---------------------------------------------------------------------------
(* validate_long_text_input on texts of one-letter words *)

WordLists == UNION {[1..n -> {<<"a">>, <<"b">>}] : n \in 1..MaxWords}

InitValidate ==
    /\ Ready({"validate_long_text_input"}, Configs)
    /\ args \in [text : {lead \o Join(ws, <<" ">>) : lead \in {<<>>, <<" ">>}, ws \in WordLists}
                        \cup {<<>>, <<" ">>}]

NextValidate == CallValidateLongTextInput

SpecValidate == InitValidate /\ [][NextValidate]_vars

---------------------------------------------------------------------------
(* concatenate_audio_chunks on segments of a common channel count.  Sample  *)
(* k of row r of segment i is the non-zero value 10 * i + r.                 *)

Segment(i, channels, length) == [r \in 1..channels |-> [k \in 1..length |-> 10 * i + r]]

InitAudio ==
    /\ Ready({"concatenate_audio_chunks"}, {DefaultConfig})
    /\ \E n \in 1..MaxSegments, channels \in 1..2 :
       \E lengths \in [1..n -> 1..MaxSegLen], sample_rate \in {10, 25} :
          args = [audio_chunks |-> [i \in 1..n |-> Segment(i, channels, lengths[i])],
                  sample_rate |-> sample_rate]

NextAudio == CallConcatenateAudioChunks

SpecAudio == InitAudio /\ [][NextAudio]_vars

---------------------------------------------------------------------------
(* The whole program: any of the calls *)

Init ==
    InitChunk \/ InitEntry \/ InitSplit \/ InitHier \/ InitLegacy \/ InitValidate \/ InitAudio

Next == NextEntry \/ NextSplit \/ NextHier \/ NextLegacy \/ NextValidate \/ NextAudio

Spec == Init /\ [][Next]_vars

---------------------------------------------------------------------------
(* The claims *)

RemoveWhitespace(s) == SelectSeq(s, LAMBDA c : ~IsSpace(c))

IsSingleWord(chunk) == \A k \in 1..Len(chunk) : ~IsSpace(chunk[k])

\* the chunk strings a chunker returned
ChunkStrings ==
    IF fn = "split_text_for_long_generation" THEN [i \in 1..Len(ret) |-> ret[i].text]
    ELSE ret

\* the maximum length in force in chunk_text for a requested maximum
LimitInForce(requested) ==
    LET m == IF requested # None /\ Val(requested) > 0 THEN Val(requested)
             ELSE cfg.LONG_TEXT_CHUNK_SIZE
    IN  IF m < cfg.MAX_TOTAL_LENGTH - 100 /\ m > 0 THEN m
        ELSE IF cfg.MAX_TOTAL_LENGTH - 100 > 0 THEN cfg.MAX_TOTAL_LENGTH - 100
        ELSE m

IsPositive(o) == o # None /\ Val(o) > 0

C1_Applies ==
    /\ pc = "done"
    /\ \/ fn = "chunk_text" /\ IsPositive(args.max_length)
       \/ fn = "split_text_for_streaming" /\ IsPositive(args.chunk_size)

C1_Limit ==
    IF fn = "chunk_text" THEN LimitInForce(args.max_length) ELSE Val(args.chunk_size)

\* C1: every chunk returned by chunk_text (max_length > 0, any strategy) and by
\* split_text_for_streaming (chunk_size > 0) is no longer than the maximum in
\* force, unless it consists of one single word
C1_ChunkLengthBounded ==
    C1_Applies =>
        \A i \in 1..Len(ret) : Len(ret[i]) <= C1_Limit \/ IsSingleWord(ret[i])

\* a call that returned several chunks, one of them several words long and
\* exactly as long as the maximum in force
C1_Witness ==
    /\ C1_Applies
    /\ Len(ret) >= 2
    /\ \E i \in 1..Len(ret) : Len(ret[i]) = C1_Limit /\ ~IsSingleWord(ret[i])

C2_Applies == pc = "done" /\ fn = "chunk_text" /\ IsPositive(args.max_length)

\* C2: the chunks of chunk_text, concatenated in the order returned and with
\* all whitespace deleted, are the input text with all whitespace deleted
C2_ContentPreserved ==
    C2_Applies => RemoveWhitespace(Flatten(ret)) = RemoveWhitespace(args.text)

\* a call that split the text in several chunks and dropped whitespace
C2_Witness ==
    /\ C2_Applies
    /\ Len(ret) >= 2
    /\ Len(Flatten(ret)) < Len(args.text)

C5_Applies ==
    /\ pc = "done"
    /\ fn \in {"chunk_text", "split_text_for_long_generation"}

C5_Requested ==
    IF fn = "chunk_text" THEN args.max_length ELSE args.max_chunk_size

C5_LongWords ==
    {w \in SetOf(SplitWords(args.text)) : Len(w) > LimitInForce(C5_Requested)}

RightmostBoundary(text, delimiters, max_length) ==
    LET ends == {i + Len(delimiters[k]) : k \in 1..Len(delimiters), i \in 0..Len(text)}
        legal == {e \in ends :
                     /\ e <= max_length
                     /\ \E k \in 1..Len(delimiters) :
                           StartsAt(text, delimiters[k], e - Len(delimiters[k]))}
    IN  IF legal = {} THEN None ELSE Some(SetMax(legal))

\* C3: the split position the sentence tier and the clause tier choose is the
\* rightmost boundary at or before max_length over all the delimiter variants
C3_RightmostOverAllVariants ==
    /\ (pc = "done" /\ fn = "_try_split_at_sentences")
          => locals.best_split = RightmostBoundary(args.text, sentence_endings, args.max_length)
    /\ (pc = "done" /\ fn = "_try_split_at_clauses")
          => locals.best_split = RightmostBoundary(args.text, clause_delimiters, args.max_length)

\* a pass of the loop on a remaining text longer than max_length gets a
\* non-empty head and a strictly shorter remainder
C4_Progress ==
    (fn = "_chunk_hierarchical" /\ pc = "loop"
        /\ Len(locals.remaining_text) > args.max_length) =>
        LET r == FindBestSplitPoint(locals.remaining_text, args.max_length, 0)
        IN  r[1] # <<>> /\ Len(r[2]) < Len(locals.remaining_text)

\* a pass of the loop that is followed by another leaves a shorter remaining text
C4_Shrinks ==
    (pc = "loop" /\ pc' = "loop") =>
        Len(locals'.remaining_text) < Len(locals.remaining_text)

\* C4: the loop of _chunk_hierarchical terminates for every text and every
\* max_length >= 1: on a remaining text longer than max_length
\* _find_best_split_point returns a non-empty head and a shorter remainder,
\* every pass shortens the remaining text, and the function returns
C4_HierarchicalTerminates == []C4_Progress /\ [][C4_Shrinks]_vars /\ <>(pc = "done")

\* a call that returned after at least three passes of the loop
C4_Witness ==
    /\ fn = "_chunk_hierarchical"
    /\ pc = "done"
    /\ Len(ret) >= 3

\* C6: in every entry point the chunk size in force is positive, and a
\* non-blank text is not lost when the size given is absent, zero or negative
C6_ChunkSizePositive ==
    pc = "done" =>
        /\ fn = "chunk_text" => locals.max_length > 0 /\ locals.effective_max > 0
        /\ fn = "split_text_for_long_generation" => locals.max_chunk_size > 0
        /\ fn = "estimate_processing_time" => locals.effective_chunk_size > 0
        /\ fn = "get_streaming_settings" => ret.chunk_size > 0
        /\ fn = "split_text_for_streaming" =>
              /\ locals.chunk_size > 0
              /\ (~IsPositive(args.chunk_size) /\ Strip(args.text) # <<>>) => ret # <<>>

C7_ChunkSize(chunk_size, quality) ==
    IF TruthyInt(chunk_size) THEN Val(chunk_size)
    ELSE IF quality = Some("fast") THEN 100
    ELSE IF quality = Some("balanced") THEN 200
    ELSE IF quality = Some("high") THEN 300
    ELSE 200

C7_Strategy(strategy, quality) ==
    IF TruthyStr(strategy) THEN Val(strategy)
    ELSE IF quality = Some("fast") THEN "word"
    ELSE IF quality = Some("balanced") THEN "sentence"
    ELSE IF quality = Some("high") THEN "paragraph"
    ELSE "sentence"

\* C7: get_streaming_settings and split_text_for_streaming resolve the chunk
\* size and the strategy alike, each field on its own: the override when one
\* is supplied, else the preset of the quality, else 200 and sentence
C7_SameResolution ==
    /\ (pc = "done" /\ fn = "get_streaming_settings") =>
          /\ ret.chunk_size = C7_ChunkSize(args.chunk_size, args.quality)
          /\ ret.strategy = C7_Strategy(args.strategy, args.quality)
    /\ (pc = "done" /\ fn = "split_text_for_streaming") =>
          /\ locals.chunk_size = C7_ChunkSize(args.chunk_size, args.quality)
          /\ locals.strategy = C7_Strategy(args.strategy, args.quality)

\* get_streaming_settings with the chunk size overridden and the strategy
\* taken from the preset
C7_Witness ==
    /\ pc = "done"
    /\ fn = "get_streaming_settings"
    /\ args.chunk_size = Some(150) /\ args.strategy = None /\ args.quality = Some("fast")
    /\ ret.chunk_size = 150 /\ ret.strategy = "word"

\* the words of a text: its maximal runs of non-whitespace characters
C8_IsWord(text, i, j) ==
    /\ i <= j
    /\ \A k \in i..j : ~IsSpace(text[k])
    /\ i = 1 \/ IsSpace(text[i - 1])
    /\ j = Len(text) \/ IsSpace(text[j + 1])

C8_Total(text) ==
    Cardinality({<<i, j>> \in (1..Len(text)) \X (1..Len(text)) : C8_IsWord(text, i, j)})

C8_Distinct(text) ==
    Cardinality({SubSeq(text, p[1], p[2]) :
                    p \in {q \in (1..Len(text)) \X (1..Len(text)) :
                              C8_IsWord(text, q[1], q[2])}})

C8_InBounds ==
    /\ pc = "done" /\ fn = "validate_long_text_input"
    /\ Strip(args.text) # <<>>
    /\ Len(Strip(args.text)) >= cfg.LONG_TEXT_MIN_LENGTH
    /\ Len(Strip(args.text)) <= cfg.LONG_TEXT_MAX_LENGTH

C8_Rejected == ret = <<FALSE, <<"Text appears to be excessively repetitive">>>>
C8_Accepted == ret = <<TRUE, <<>>>>

\* C8 as claimed: a text within the length bounds is rejected when its distinct
\* words are 10% of its words or fewer, and accepted otherwise
C8_RejectsAtTenPercent ==
    C8_InBounds =>
        IF 10 * C8_Distinct(args.text) <= C8_Total(args.text) THEN C8_Rejected
        ELSE C8_Accepted

\* C8 as amended: a text within the length bounds is rejected when its distinct
\* words are fewer than 10% of its words, and accepted, exactly 10% included,
\* otherwise
C8_RejectsBelowTenPercent ==
    C8_InBounds =>
        IF 10 * C8_Distinct(args.text) < C8_Total(args.text) THEN C8_Rejected
        ELSE C8_Accepted

\* a text of ten words, all the same, is accepted
C8_Witness ==
    /\ C8_InBounds
    /\ C8_Total(args.text) = 10 /\ C8_Distinct(args.text) = 1
    /\ C8_Accepted

\* the segments in order with silence zeros on every channel between them
RECURSIVE C9_Row(_, _, _)
C9_Row(segments, r, silence) ==
    IF Len(segments) = 1 THEN segments[1][r]
    ELSE segments[1][r] \o [k \in 1..silence |-> 0] \o C9_Row(Tail(segments), r, silence)

\* C9: concatenate_audio_chunks returns the segments in order, with
\* floor(0.1 * sample_rate) zero samples on all the channels between every
\* consecutive pair, and the single segment unchanged
C9_StitchedWithSilence ==
    (pc = "done" /\ fn = "concatenate_audio_chunks") =>
        /\ ret.ok
        /\ ret.value = [r \in 1..Rows(args.audio_chunks[1]) |->
                           C9_Row(args.audio_chunks, r, args.sample_rate \div 10)]

C10_Ceiling(n, d) == SetMin({k \in 0..n : k * d >= n})

\* C10: estimate_processing_time returns floor(text_length / rate) + 5 +
\* 2 * num_chunks + 10, num_chunks = max(1, ceil(text_length / size)), the size
\* being chunk_size when positive and the configured chunk size otherwise
C10_Estimate ==
    (pc = "done" /\ fn = "estimate_processing_time") =>
        LET size == IF IsPositive(args.chunk_size) THEN Val(args.chunk_size)
                    ELSE cfg.LONG_TEXT_CHUNK_SIZE
            num_chunks == Max(1, C10_Ceiling(args.text_length, size))
        IN  ret = (args.text_length \div args.avg_chars_per_second) + 5 + 2 * num_chunks + 10

\* the example of the specification: (1000, 25, 200) gives 65
C10_Witness ==
    /\ pc = "done" /\ fn = "estimate_processing_time"
    /\ args.text_length = 1000 /\ args.avg_chars_per_second = 25
    /\ args.chunk_size = Some(200)
    /\ ret = 65

\* C11: a split the paragraph, sentence or clause tier produces has a trimmed
\* head longer than 0.5, 0.4 or 0.3 times max_length respectively
C11_HeadOverThreshold ==
    (pc = "done" /\ fn = "_find_best_split_point") =>
        /\ locals.tier = "paragraph" => 10 * Len(ret[1]) > 5 * args.max_length
        /\ locals.tier = "sentence" => 10 * Len(ret[1]) > 4 * args.max_length
        /\ locals.tier = "clause" => 10 * Len(ret[1]) > 3 * args.max_length

\* the characters on both sides of the offset are not whitespace
C12_InsideWord(text, pos) ==
    /\ 0 < pos /\ pos < Len(text)
    /\ ~IsSpace(text[pos]) /\ ~IsSpace(text[pos + 1])

\* C12: _find_best_split_point cuts inside a word only when the first
\* max_length characters of the text hold no whitespace character
C12_CutsWordOnlyWithoutWhitespace ==
    (pc = "done" /\ fn = "_find_best_split_point"
        /\ C12_InsideWord(args.text, locals.split_pos)) =>
        \A i \in 1..args.max_length : ~IsSpace(args.text[i])

\* C13: the chunks of split_text_for_streaming and of split_text_into_chunks,
\* joined in order with the whitespace deleted, are the input with the
\* whitespace deleted: no delimiter or word is lost
C13_StreamingContentPreserved ==
    (pc = "done" /\ fn \in {"split_text_for_streaming", "split_text_into_chunks"}
        /\ (fn = "split_text_for_streaming" => locals.chunk_size > 0)
        /\ (fn = "split_text_into_chunks" => locals.max_length > 0)) =>
        RemoveWhitespace(Flatten(ret)) = RemoveWhitespace(args.text)

\* C14: on a text longer than max_length every chunk of split_text_into_chunks
\* is at most max_length long, or is one single word
C14_LegacyChunkBounded ==
    (pc = "done" /\ fn = "split_text_into_chunks"
        /\ locals.max_length > 0 /\ Len(args.text) > locals.max_length) =>
        \A i \in 1..Len(ret) : Len(ret[i]) <= locals.max_length \/ IsSingleWord(ret[i])

====
